---- MODULE Spec2Model ----
(***************************************************************************)
(* Model of osint_username_checker.py: UsernameChecker.check_username (one *)
(* probe of one site) and UsernameChecker.scan_username (the concurrent    *)
(* scan that launches one probe per site and collects the verdicts with    *)
(* asyncio.as_completed).                                                  *)
(*                                                                         *)
(* Strings the code searches or builds are sequences of one-character      *)
(* strings; an Optional[str] is a sequence of length at most one (None is  *)
(* the empty sequence).  The User-Agent header of line 73 is not modelled: *)
(* nothing in the checker reads it back.                                   *)
(***************************************************************************)
EXTENDS Integers, Sequences, FiniteSets, Bags, TLC

VARIABLES
    sites,       \* self.sites: the loaded site descriptors
    username,    \* the identifier passed to scan_username
    transport,   \* what the network answers for each site's GET
    results,     \* self.results: the three buckets
    scanState,   \* scan_username: Idle, Running, Completed, Failed
    scans,       \* number of scan_username calls made on the instance
    client,      \* the httpx.AsyncClient of the running scan
    pc,          \* position of each check_username coroutine
    result,      \* each coroutine's local `result` dict (none before line 64)
    trace,       \* the steps each coroutine has executed, in order
    requests,    \* the URLs each coroutine has passed to client.get
    queue,       \* as_completed's queue of finished tasks
    order,       \* the coroutines that returned a verdict, in completion order
    progress,    \* the rich progress task: completed and total
    returned     \* the value of self.results at each return of scan_username

vars == <<sites, username, transport, results, scanState, scans, client, pc,
          result, trace, requests, queue, order, progress, returned>>

----------------------------------------------------------------------------
(* Bounds *)

MaxSites == 2
MaxScans == 2
MaxBodyLen == 3
MaxMarkerLen == 2

----------------------------------------------------------------------------
(* Values *)

None == <<>>
Some(s) == <<s>>

SeqsUpTo(S, n) == UNION {[1..k -> S] : k \in 0..n}

Chars == {"a", "A", "b"}

\* str.lower() on one character of Chars
lower_char(c) == IF c = "A" THEN "a" ELSE c

\* str.lower()
lower(s) == [i \in 1..Len(s) |-> lower_char(s[i])]

\* Python's `needle in hay` for strings
contains(needle, hay) ==
    \E k \in 0..(Len(hay) - Len(needle)) :
        SubSeq(hay, k + 1, k + Len(needle)) = needle

\* Python truthiness of a str
truthy(s) == Len(s) > 0

----------------------------------------------------------------------------
(* url_template.format(username=username), line 61.  A template is a       *)
(* sequence of tokens: a literal character, the replacement field          *)
(* {username}, another named field, the positional field {}, an escaped    *)
(* brace, or a single unbalanced brace.  The first bad token, left to      *)
(* right, decides the exception.                                           *)

RECURSIVE format(_, _)
format(template, name) ==
    IF template = <<>> THEN [raised |-> FALSE, value |-> <<>>]
    ELSE LET tok == Head(template)
             rest == format(Tail(template), name)
         IN  CASE tok = "{user}" -> [raised |-> TRUE, value |-> <<"KeyError">>]
               [] tok = "{}" -> [raised |-> TRUE, value |-> <<"IndexError">>]
               [] tok \in {"{", "}"} -> [raised |-> TRUE, value |-> <<"ValueError">>]
               [] OTHER ->
                    IF rest.raised THEN rest
                    ELSE [raised |-> FALSE,
                          value |-> (CASE tok = "{username}" -> name
                                       [] tok = "{{" -> <<"{">>
                                       [] tok = "}}" -> <<"}">>
                                       [] OTHER -> <<tok>>) \o rest.value]

----------------------------------------------------------------------------
(* Detection logic, lines 79-103.  Each operator takes the `result` dict   *)
(* and gives it back with the assignments of its branch applied.           *)

\* status_code_detection with the 404 test as the only test: every other code
\* counts as found.
status_code_detection_not404(res, status_code) ==
    IF status_code = 404 THEN [res EXCEPT !.status = "not_found"]
    ELSE [res EXCEPT !.status = "found"]

status_code_detection(res, status_code) ==
    IF status_code = 200 THEN [res EXCEPT !.status = "found"]
    ELSE IF status_code = 404 THEN [res EXCEPT !.status = "not_found"]
    ELSE [res EXCEPT !.status = "unknown",
                     !.error = Some("Unexpected status: " \o ToString(status_code))]

\* message_body_detection with the two .lower() calls left out.
message_body_detection_case_sensitive(res, status_code, text, error_message) ==
    IF status_code = 200 THEN
        IF truthy(error_message) /\ contains(error_message, text)
        THEN [res EXCEPT !.status = "not_found"]
        ELSE [res EXCEPT !.status = "found"]
    ELSE IF status_code = 404 THEN [res EXCEPT !.status = "not_found"]
    ELSE [res EXCEPT !.status = "unknown",
                     !.error = Some("Status: " \o ToString(status_code))]

message_body_detection(res, status_code, text, error_message) ==
    IF status_code = 200 THEN
        IF truthy(error_message) /\ contains(lower(error_message), lower(text))
        THEN [res EXCEPT !.status = "not_found"]
        ELSE [res EXCEPT !.status = "found"]
    ELSE IF status_code = 404 THEN [res EXCEPT !.status = "not_found"]
    ELSE [res EXCEPT !.status = "unknown",
                     !.error = Some("Status: " \o ToString(status_code))]

detection(res, site, response) ==
    IF site.detection_type = "status_code"
    THEN status_code_detection(res, response.status_code)
    ELSE IF site.detection_type = "message_body"
    THEN message_body_detection(res, response.status_code, response.text,
                                site.error_message)
    ELSE res

\* exception_verdict without the TimeoutException clause: a timeout falls
\* through to the last clause.
exception_verdict_no_timeout_clause(res, exc) ==
    IF exc.kind = "ConnectError"
    THEN [res EXCEPT !.status = "error", !.error = Some("Connection failed")]
    ELSE IF exc.kind = "UnsupportedProtocol"
    THEN [res EXCEPT !.status = "error", !.error = Some("SSL/TLS error")]
    ELSE [res EXCEPT !.status = "error", !.error = Some(exc.message)]

\* The except clauses, lines 108-119.
exception_verdict(res, exc) ==
    IF exc.kind = "TimeoutException"
    THEN [res EXCEPT !.status = "error", !.error = Some("Timeout")]
    ELSE IF exc.kind = "ConnectError"
    THEN [res EXCEPT !.status = "error", !.error = Some("Connection failed")]
    ELSE IF exc.kind = "UnsupportedProtocol"
    THEN [res EXCEPT !.status = "error", !.error = Some("SSL/TLS error")]
    ELSE [res EXCEPT !.status = "error", !.error = Some(exc.message)]

\* initial_result with the template stored in place of the resolved URL.
initial_result_template_url(site, url) ==
    [site |-> site.name, url |-> site.url_template, status |-> "unknown",
     error |-> None]

\* initial_result with 'found' as the status a probe starts from.
initial_result_default_found(site, url) ==
    [site |-> site.name, url |-> url, status |-> "found", error |-> None]

\* The dict built at lines 64-69.
initial_result(site, url) ==
    [site |-> site.name, url |-> url, status |-> "unknown", error |-> None]

\* bucket_of with the last two branches testing for 'error': an unknown
\* verdict lands in not_found.
bucket_of_error_only(status) ==
    IF status = "found" THEN "found"
    ELSE IF status = "error" THEN "errors"
    ELSE "not_found"

\* The bucket chosen at lines 156-161.
bucket_of(status) ==
    IF status = "found" THEN "found"
    ELSE IF status = "not_found" THEN "not_found"
    ELSE "errors"

----------------------------------------------------------------------------
(* Inputs *)

Response(code, text) ==
    [kind |-> "response", status_code |-> code, text |-> text, message |-> ""]

Raises(kind, message) ==
    [kind |-> kind, status_code |-> 0, text |-> <<>>, message |-> message]

Site(name, template, detection_type, error_message) ==
    [name |-> name, url_template |-> template,
     detection_type |-> detection_type, error_message |-> error_message]

StatusCodes == {200, 404, 500, 301}

ExceptionKinds == {"TimeoutException", "ConnectError", "UnsupportedProtocol", "Exception"}

GoodTemplate == <<"h", "/", "{username}">>

Templates ==
    { GoodTemplate,
      <<"h">>,
      <<"{username}", "/", "{username}">>,
      <<"{{", "{username}", "}}">>,
      <<"h", "/", "{user}">>,
      <<"h", "{}">>,
      <<"h", "{", "{username}">> }

Identifiers == {<<"a">>, <<"a", "l">>}

DetectionTypes == {"status_code", "message_body", "regex"}

\* One site, every detection type, marker, status code and body.
ProbeSites ==
    { Site("A", GoodTemplate, d, m) :
        d \in DetectionTypes, m \in SeqsUpTo(Chars, MaxMarkerLen) }

ProbeOutcomes ==
    { Response(c, t) : c \in StatusCodes, t \in SeqsUpTo(Chars, MaxBodyLen) }
    \cup { Raises(k, m) : k \in ExceptionKinds, m \in {"", "boom"} }

\* One site, every template and identifier.
UrlSites == { Site("A", t, "status_code", <<>>) : t \in Templates }

UrlOutcomes == { Response(200, <<>>), Raises("ConnectError", "") }

\* Several sites: a few descriptors and answers per site.
ScanSites ==
    { Site(n, t, "status_code", <<>>) :
        n \in {"A", "B"}, t \in {GoodTemplate, <<"h", "/", "{user}">>} }

ScanOutcomes ==
    { Response(200, <<>>), Response(404, <<>>), Response(500, <<>>),
      Raises("TimeoutException", "") }

----------------------------------------------------------------------------
(* State after UsernameChecker.__init__ and load_sites, lines 31-36, 47 *)

NoResults == [found |-> <<>>, not_found |-> <<>>, errors |-> <<>>]

InitChecker ==
    /\ results = NoResults
    /\ scanState = "Idle"
    /\ scans = 0
    /\ client = "none"
    /\ pc = [i \in DOMAIN sites |-> "none"]
    /\ result = [i \in DOMAIN sites |-> <<>>]
    /\ trace = [i \in DOMAIN sites |-> <<>>]
    /\ requests = [i \in DOMAIN sites |-> <<>>]
    /\ queue = <<>>
    /\ order = <<>>
    /\ progress = [completed |-> 0, total |-> 0]
    /\ returned = <<>>

\* Site names alternate along the list, so that the list holds distinct
\* names and, from three sites on, a repeated one.
SiteNameAt(i) == IF i % 2 = 1 THEN "A" ELSE "B"

Init ==
    /\ sites \in {s \in SeqsUpTo(ScanSites, MaxSites) :
                    \A i \in DOMAIN s : s[i].name = SiteNameAt(i)}
    /\ transport \in [DOMAIN sites -> ScanOutcomes]
    /\ username = <<"a", "l">>
    /\ InitChecker

InitProbe ==
    /\ \/ /\ sites \in [1..1 -> ProbeSites]
          /\ transport \in [1..1 -> ProbeOutcomes]
          /\ username = <<"a", "l">>
       \/ /\ sites \in [1..1 -> UrlSites]
          /\ transport \in [1..1 -> UrlOutcomes]
          /\ username \in Identifiers
    /\ InitChecker

----------------------------------------------------------------------------
(* scan_username, lines 123-165 *)

\* Entry: the client and the progress task are created and one coroutine per
\* site is handed to as_completed (lines 131-152).  self.results is not
\* touched.
scan_username_start ==
    /\ scanState \in {"Idle", "Completed", "Failed"}
    /\ scans < MaxScans
    /\ scanState' = "Running"
    /\ scans' = scans + 1
    /\ client' = "open"
    /\ pc' = [i \in DOMAIN sites |-> "start"]
    /\ result' = [i \in DOMAIN sites |-> <<>>]
    /\ trace' = [i \in DOMAIN sites |-> <<>>]
    /\ requests' = [i \in DOMAIN sites |-> <<>>]
    /\ queue' = <<>>
    /\ order' = <<>>
    /\ progress' = [completed |-> 0, total |-> Len(sites)]
    /\ UNCHANGED <<sites, username, transport, results, returned>>

\* check_username_start for a scan that awaits the probes one after the
\* other: a probe starts only when the probes before it have returned.
check_username_start_sequential(i) ==
    /\ scanState = "Running"
    /\ pc[i] = "start"
    /\ \A j \in 1..(i - 1) : pc[j] \in {"done", "collected", "raised"}
    /\ LET url == format(sites[i].url_template, username) IN
        IF url.raised
        THEN /\ pc' = [pc EXCEPT ![i] = "raised"]
             /\ queue' = Append(queue, i)
             /\ trace' = [trace EXCEPT ![i] = Append(@, "raise")]
             /\ UNCHANGED <<result, requests>>
        ELSE /\ pc' = [pc EXCEPT ![i] = "requesting"]
             /\ result' = [result EXCEPT ![i] = <<initial_result(sites[i], url.value)>>]
             /\ requests' = [requests EXCEPT ![i] = Append(@, url.value)]
             /\ trace' = [trace EXCEPT ![i] = @ \o <<"resolve", "request">>]
             /\ UNCHANGED queue
    /\ UNCHANGED <<sites, username, transport, results, scanState, scans,
                   client, order, progress, returned>>

\* check_username up to its first suspension: lines 60-76.  The three
\* lookups and the format call are outside the try block, so an exception of
\* format ends the task with that exception.
check_username_start(i) ==
    /\ scanState = "Running"
    /\ pc[i] = "start"
    /\ LET url == format(sites[i].url_template, username) IN
        IF url.raised
        THEN /\ pc' = [pc EXCEPT ![i] = "raised"]
             /\ queue' = Append(queue, i)
             /\ trace' = [trace EXCEPT ![i] = Append(@, "raise")]
             /\ UNCHANGED <<result, requests>>
        ELSE /\ pc' = [pc EXCEPT ![i] = "requesting"]
             /\ result' = [result EXCEPT ![i] = <<initial_result(sites[i], url.value)>>]
             /\ requests' = [requests EXCEPT ![i] = Append(@, url.value)]
             /\ trace' = [trace EXCEPT ![i] = @ \o <<"resolve", "request">>]
             /\ UNCHANGED queue
    /\ UNCHANGED <<sites, username, transport, results, scanState, scans,
                   client, order, progress, returned>>

\* check_username_response for a probe that sends its request once more
\* after a first failure.
check_username_response_retry(i) ==
    /\ scanState = "Running"
    /\ pc[i] = "requesting"
    /\ IF transport[i].kind = "response"
       THEN /\ result' = [result EXCEPT ![i] = <<detection(@[1], sites[i], transport[i])>>]
            /\ pc' = [pc EXCEPT ![i] = "sleeping"]
            /\ trace' = [trace EXCEPT ![i] = Append(@, "classify")]
            /\ UNCHANGED <<queue, order, requests>>
       ELSE IF Len(requests[i]) < 2
       THEN /\ requests' = [requests EXCEPT ![i] = Append(@, @[1])]
            /\ trace' = [trace EXCEPT ![i] = Append(@, "request")]
            /\ UNCHANGED <<result, pc, queue, order>>
       ELSE /\ result' = [result EXCEPT ![i] = <<exception_verdict(@[1], transport[i])>>]
            /\ pc' = [pc EXCEPT ![i] = "done"]
            /\ trace' = [trace EXCEPT ![i] = Append(@, "return")]
            /\ queue' = Append(queue, i)
            /\ order' = Append(order, i)
            /\ UNCHANGED requests
    /\ UNCHANGED <<sites, username, transport, results, scanState, scans,
                   client, progress, returned>>

\* client.get completes, lines 76-119: a response is classified and the
\* coroutine goes to sleep; an exception is turned into a verdict by the
\* except clauses and the coroutine returns.
check_username_response(i) ==
    /\ scanState = "Running"
    /\ pc[i] = "requesting"
    /\ IF transport[i].kind = "response"
       THEN /\ result' = [result EXCEPT ![i] = <<detection(@[1], sites[i], transport[i])>>]
            /\ pc' = [pc EXCEPT ![i] = "sleeping"]
            /\ trace' = [trace EXCEPT ![i] = Append(@, "classify")]
            /\ UNCHANGED <<queue, order>>
       ELSE /\ result' = [result EXCEPT ![i] = <<exception_verdict(@[1], transport[i])>>]
            /\ pc' = [pc EXCEPT ![i] = "done"]
            /\ trace' = [trace EXCEPT ![i] = Append(@, "return")]
            /\ queue' = Append(queue, i)
            /\ order' = Append(order, i)
    /\ UNCHANGED <<sites, username, transport, results, scanState, scans,
                   client, requests, progress, returned>>

\* asyncio.sleep(self.rate_limit) is over and the coroutine returns, lines
\* 106 and 121.
check_username_wake(i) ==
    /\ scanState = "Running"
    /\ pc[i] = "sleeping"
    /\ pc' = [pc EXCEPT ![i] = "done"]
    /\ trace' = [trace EXCEPT ![i] = @ \o <<"delay", "return">>]
    /\ queue' = Append(queue, i)
    /\ order' = Append(order, i)
    /\ UNCHANGED <<sites, username, transport, results, scanState, scans,
                   client, result, requests, progress, returned>>

\* The event loop runs the first step of every task as_completed has
\* scheduled before it resumes scan_username at `await coro`.
all_started == \A i \in DOMAIN sites : pc[i] # "start"

\* scan_username_collect for a loop that awaits the tasks in the order of
\* the site list instead of the order in which they finish.
scan_username_collect_list_order ==
    /\ scanState = "Running"
    /\ all_started
    /\ \E i \in DOMAIN sites :
        /\ pc[i] = "done"
        /\ \A j \in 1..(i - 1) : pc[j] = "collected"
        /\ LET r == result[i][1]
               b == bucket_of(r.status)
           IN  /\ results' = [results EXCEPT ![b] = Append(@, r)]
               /\ pc' = [pc EXCEPT ![i] = "collected"]
        /\ queue' = SelectSeq(queue, LAMBDA q : q # i)
    /\ progress' = [progress EXCEPT !.completed = @ + 1]
    /\ UNCHANGED <<sites, username, transport, scanState, scans, client,
                   result, trace, requests, order, returned>>

\* scan_username_collect without the progress.update call of line 163.
scan_username_collect_no_advance ==
    /\ scanState = "Running"
    /\ all_started
    /\ queue # <<>>
    /\ pc[Head(queue)] = "done"
    /\ LET i == Head(queue)
           r == result[i][1]
           b == bucket_of(r.status)
       IN  /\ results' = [results EXCEPT ![b] = Append(@, r)]
           /\ pc' = [pc EXCEPT ![i] = "collected"]
    /\ queue' = Tail(queue)
    /\ UNCHANGED <<sites, username, transport, scanState, scans, client,
                   result, trace, requests, order, progress, returned>>

\* One turn of the as_completed loop for a task that returned a verdict,
\* lines 152-163.
scan_username_collect ==
    /\ scanState = "Running"
    /\ all_started
    /\ queue # <<>>
    /\ pc[Head(queue)] = "done"
    /\ LET i == Head(queue)
           r == result[i][1]
           b == bucket_of(r.status)
       IN  /\ results' = [results EXCEPT ![b] = Append(@, r)]
           /\ pc' = [pc EXCEPT ![i] = "collected"]
    /\ queue' = Tail(queue)
    /\ progress' = [progress EXCEPT !.completed = @ + 1]
    /\ UNCHANGED <<sites, username, transport, scanState, scans, client,
                   result, trace, requests, order, returned>>

\* One turn of the as_completed loop for a task that ended with an
\* exception: `await coro` (line 153) raises it, the two with blocks are
\* left, the client is closed and scan_username ends with the exception.
\* The tasks still running are left behind.
scan_username_raise ==
    /\ scanState = "Running"
    /\ all_started
    /\ queue # <<>>
    /\ pc[Head(queue)] = "raised"
    /\ scanState' = "Failed"
    /\ client' = "closed"
    /\ queue' = Tail(queue)
    /\ UNCHANGED <<sites, username, transport, results, scans, pc, result,
                   trace, requests, order, progress, returned>>

\* scan_username_return for a scan that waits with asyncio.wait, which
\* raises ValueError when it is given no task.
scan_username_return_wait ==
    /\ scanState = "Running"
    /\ \A i \in DOMAIN sites : pc[i] = "collected"
    /\ client' = "closed"
    /\ IF sites = <<>>
       THEN scanState' = "Failed" /\ UNCHANGED returned
       ELSE scanState' = "Completed" /\ returned' = Append(returned, results)
    /\ UNCHANGED <<sites, username, transport, results, scans, pc, result,
                   trace, requests, queue, order, progress>>

\* The loop has yielded every task: the with blocks are left and
\* self.results is returned, line 165.
scan_username_return ==
    /\ scanState = "Running"
    /\ \A i \in DOMAIN sites : pc[i] = "collected"
    /\ scanState' = "Completed"
    /\ client' = "closed"
    /\ returned' = Append(returned, results)
    /\ UNCHANGED <<sites, username, transport, results, scans, pc, result,
                   trace, requests, queue, order, progress>>

Next ==
    \/ scan_username_start
    \/ \E i \in DOMAIN sites : check_username_start(i)
    \/ \E i \in DOMAIN sites : check_username_response(i)
    \/ \E i \in DOMAIN sites : check_username_wake(i)
    \/ scan_username_collect
    \/ scan_username_raise
    \/ scan_username_return

Spec == Init /\ [][Next]_vars

SpecProbe == InitProbe /\ [][Next]_vars

----------------------------------------------------------------------------
(* Properties *)

Returned(i) == pc[i] \in {"done", "collected"}

Classified(i) == pc[i] \in {"sleeping", "done", "collected"}

Size(rs) == Len(rs.found) + Len(rs.not_found) + Len(rs.errors)

Range(s) == {s[i] : i \in DOMAIN s}

BagOfSeq(s) == [v \in Range(s) |-> Cardinality({i \in DOMAIN s : s[i] = v})]

Key(v) == [status |-> v.status, site |-> v.site, url |-> v.url]

Verdicts(rs) ==
    LET all == rs.found \o rs.not_found \o rs.errors
    IN  BagOfSeq([i \in DOMAIN all |-> Key(all[i])])

Resolves(i) == ~format(sites[i].url_template, username).raised

\* The marker occurs in the body when letter case is ignored.
MarkerOccurs(marker, body) ==
    \E k \in 0..(Len(body) - Len(marker)) :
        \A j \in 1..Len(marker) : lower_char(body[k + j]) = lower_char(marker[j])

\* C1: whenever scan_username returns, the first call or a later call on the
\* same checker, the three buckets of the returned Result Set hold exactly
\* as many verdicts as there are sites.
C1_OneVerdictPerSite ==
    \A k \in DOMAIN returned : Size(returned[k]) = Len(sites)

\* C2: a check_username call never ends with an exception; a call that has
\* ended has returned exactly one verdict.
C2_ProbeNeverRaises ==
    \A i \in DOMAIN sites :
        /\ pc[i] # "raised"
        /\ Returned(i) => Len(result[i]) = 1

\* C3: a scan never ends in a failed state, and a completed scan in which
\* every probe failed has found and not_found empty and all N verdicts in
\* errors.
C3_ScanAlwaysCompletes ==
    /\ scanState # "Failed"
    /\ (scanState = "Completed"
          /\ \A i \in DOMAIN sites : transport[i].kind # "response")
       => /\ results.found = <<>>
          /\ results.not_found = <<>>
          /\ Len(results.errors) = Len(sites)

\* C4: whatever happens to the other probes, once the scan is over the
\* verdict of every site whose own probe produces one has reached the
\* Result Set.
C4_FailureIsolation ==
    \A j \in DOMAIN sites :
        (Resolves(j) /\ scanState \in {"Completed", "Failed"})
            => pc[j] = "collected"

\* C5: with detection_type status_code the status is decided by the status
\* code alone: 200 gives found, 404 gives not_found, any other code c gives
\* unknown with error "Unexpected status: c", whatever the body and marker.
C5_StatusCodeDetection ==
    \A i \in DOMAIN sites :
        (sites[i].detection_type = "status_code"
            /\ transport[i].kind = "response" /\ Classified(i))
        => LET c == transport[i].status_code
               r == result[i][1]
           IN  /\ c = 200 => r.status = "found"
               /\ c = 404 => r.status = "not_found"
               /\ c \notin {200, 404} =>
                    /\ r.status = "unknown"
                    /\ r.error = <<"Unexpected status: " \o ToString(c)>>
               /\ c = 500 => r.error = <<"Unexpected status: 500">>

C5_Witness ==
    \E i \in DOMAIN sites :
        /\ sites[i].detection_type = "status_code"
        /\ transport[i].kind = "response"
        /\ transport[i].status_code = 200
        /\ sites[i].error_message # <<>>
        /\ MarkerOccurs(sites[i].error_message, transport[i].text)
        /\ pc[i] = "done"
        /\ result[i][1].status = "found"

\* C6: with detection_type message_body, 404 gives not_found for any body;
\* 200 gives not_found exactly when the marker is non-empty and occurs in
\* the body ignoring case, and found otherwise; any other code gives unknown
\* with an error that records the code.
C6_MessageBodyDetection ==
    \A i \in DOMAIN sites :
        (sites[i].detection_type = "message_body"
            /\ transport[i].kind = "response" /\ Classified(i))
        => LET c == transport[i].status_code
               m == sites[i].error_message
               r == result[i][1]
               soft404 == m # <<>> /\ MarkerOccurs(m, transport[i].text)
           IN  /\ c = 404 => r.status = "not_found"
               /\ (c = 200 /\ soft404) => r.status = "not_found"
               /\ (c = 200 /\ ~soft404) => r.status = "found"
               /\ c \notin {200, 404} =>
                    /\ r.status = "unknown"
                    /\ r.error = <<"Status: " \o ToString(c)>>

C6_Witness ==
    \E i \in DOMAIN sites :
        /\ sites[i].detection_type = "message_body"
        /\ transport[i].kind = "response"
        /\ transport[i].status_code = 200
        /\ sites[i].error_message # <<>>
        /\ MarkerOccurs(sites[i].error_message, transport[i].text)
        /\ ~contains(sites[i].error_message, transport[i].text)
        /\ pc[i] = "done"
        /\ result[i][1].status = "not_found"

C8_DelayBeforeReturn ==
    \A i \in DOMAIN sites :
        Returned(i) =>
            \E a, b, c \in DOMAIN trace[i] :
                /\ a < b /\ b < c
                /\ trace[i][a] = "request"
                /\ trace[i][b] = "delay"
                /\ trace[i][c] = "return"

\* C9: every later scan of the same identifier and sites, the transport
\* answering as before, returns the same multiset of verdicts (status, site,
\* url) as the first scan.
C9_RepeatedScanSameVerdicts ==
    \A k \in DOMAIN returned : Verdicts(returned[k]) = Verdicts(returned[1])

\* C10: a returned verdict carries an error exactly when its status is
\* unknown or error.
C10_ErrorIffUnknownOrError ==
    \A i \in DOMAIN sites :
        Returned(i) =>
            (result[i][1].error # None
                <=> result[i][1].status \in {"unknown", "error"})

C12_TransportReleasedAfterProbes ==
    /\ scanState = "Running" => client = "open"
    /\ scanState \in {"Completed", "Failed"} => client = "closed"
    /\ client = "closed" =>
        \A i \in DOMAIN sites : pc[i] \in {"done", "collected", "raised"}

\* C13: with an empty site list a scan issues no request, never fails, can
\* return as soon as it runs, and returns three empty buckets.
C13_EmptySiteList ==
    sites = <<>> =>
        /\ scanState # "Failed"
        /\ scanState = "Running" => ENABLED scan_username_return
        /\ DOMAIN requests = {}
        /\ results = NoResults
        /\ \A k \in DOMAIN returned : returned[k] = NoResults
        /\ scanState = "Completed" => returned # <<>>

C13_Witness ==
    /\ sites = <<>>
    /\ scanState = "Completed"
    /\ returned = <<NoResults>>

\* What one token of a template stands for once the identifier is put in.
Piece(tok, id) ==
    IF tok = "{username}" THEN id
    ELSE IF tok = "{{" THEN <<"{">>
    ELSE IF tok = "}}" THEN <<"}">>
    ELSE <<tok>>

RECURSIVE Offset(_, _, _)
Offset(template, id, k) ==
    IF k <= 1 THEN 0
    ELSE Offset(template, id, k - 1) + Len(Piece(template[k - 1], id))

\* url is the template with the identifier in the place of every placeholder.
IsSubstituted(url, template, id) ==
    /\ Len(url) = Offset(template, id, Len(template) + 1)
    /\ \A k \in DOMAIN template :
        SubSeq(url, Offset(template, id, k) + 1,
                    Offset(template, id, k) + Len(Piece(template[k], id)))
            = Piece(template[k], id)

AllVerdicts == results.found \o results.not_found \o results.errors

\* C14: every verdict, whatever its status, carries the descriptor's name
\* and the url_template with the identifier substituted for the
\* placeholder, and that URL is the one the request was sent to.
C14_VerdictSiteAndUrl ==
    /\ \A i \in DOMAIN sites :
        result[i] # <<>> =>
            /\ result[i][1].site = sites[i].name
            /\ IsSubstituted(result[i][1].url, sites[i].url_template, username)
            /\ requests[i] = <<result[i][1].url>>
            /\ (sites[i].url_template = <<"h", "/", "{username}">>
                    /\ username = <<"a", "l">>)
                => result[i][1].url = <<"h", "/", "a", "l">>
    /\ \A k \in DOMAIN AllVerdicts :
        \E i \in DOMAIN sites :
            /\ AllVerdicts[k].site = sites[i].name
            /\ IsSubstituted(AllVerdicts[k].url, sites[i].url_template, username)

C14_Witness ==
    /\ Len(sites) = 1
    /\ sites[1].url_template = <<"{username}", "/", "{username}">>
    /\ transport[1].kind = "ConnectError"
    /\ results.errors # <<>>
    /\ results.errors[1].status = "error"
    /\ results.errors[1].url = <<"a", "l", "/", "a", "l">>
    /\ requests[1] = <<(<<"a", "l", "/", "a", "l">>)>>

Buckets == {"found", "not_found", "errors"}

StatusesOf(b) ==
    IF b = "found" THEN {"found"}
    ELSE IF b = "not_found" THEN {"not_found"}
    ELSE {"unknown", "error"}

Partitioned(rs) ==
    \A b \in Buckets : \A k \in DOMAIN rs[b] : rs[b][k].status \in StatusesOf(b)

\* C15: every step leaves each bucket holding only verdicts of its own
\* statuses, and a step that changes the buckets appends one verdict to one
\* bucket, the one of the verdict's status, and leaves the other two as they
\* were.
C15_OneBucketByStatus ==
    [][ /\ Partitioned(results')
        /\ results' # results =>
            \E b \in Buckets :
                /\ Len(results'[b]) = Len(results[b]) + 1
                /\ SubSeq(results'[b], 1, Len(results[b])) = results[b]
                /\ results'[b][Len(results'[b])].status \in StatusesOf(b)
                /\ \A c \in Buckets \ {b} : results'[c] = results[c]
      ]_vars

C15_Witness ==
    /\ results.found # <<>>
    /\ results.errors # <<>>
    /\ results.errors[1].status = "unknown"
    /\ scanState = "Completed"

\* C16: every step leaves the entries a bucket already holds in place, and
\* once a scan has returned its Result Set no later step changes it (the
\* Result Set returned is the object self.results).
C16_AppendOnlyThenReadOnly ==
    [][ /\ \A b \in Buckets :
            /\ Len(results'[b]) >= Len(results[b])
            /\ SubSeq(results'[b], 1, Len(results[b])) = results[b]
        /\ returned # <<>> => results' = results
      ]_vars

Collected == {i \in DOMAIN sites : pc[i] = "collected"}

\* The probes collected so far in this scan, in the order they completed.
CollectedInOrder == SubSeq(order, 1, Cardinality(Collected))

\* Those of them whose verdict belongs to bucket b.
CollectedFor(b) ==
    SelectSeq(CollectedInOrder, LAMBDA i : result[i][1].status \in StatusesOf(b))

\* The entries of bucket b appended last, n of them.
LastOf(b, n) == SubSeq(results[b], Len(results[b]) - n + 1, Len(results[b]))

\* C17: in every bucket the verdicts of the current scan stand in the order
\* in which their probes completed: the verdicts the scan has appended to a
\* bucket are those of the collected probes of that bucket, in completion
\* order.
C17_BucketOrderIsCompletionOrder ==
    /\ \A i \in Collected : \E k \in DOMAIN CollectedInOrder : CollectedInOrder[k] = i
    /\ \A b \in Buckets :
        /\ Len(CollectedFor(b)) <= Len(results[b])
        /\ LastOf(b, Len(CollectedFor(b)))
             = [k \in 1..Len(CollectedFor(b)) |-> result[CollectedFor(b)[k]][1]]

\* The second site of the list completed first and stands first in found.
C17_Witness ==
    /\ Len(sites) = 2
    /\ sites[1].name = "A" /\ sites[2].name = "B"
    /\ order = <<2, 1>>
    /\ scanState = "Completed"
    /\ Len(results.found) = 2
    /\ results.found[1].site = "B" /\ results.found[2].site = "A"

\* C18: from the start of a scan the progress total is the number of sites
\* and the progress count is the number of verdicts the scan has placed in
\* the buckets; it never exceeds the total and equals it when the scan has
\* completed.
C18_ProgressCountsCollected ==
    scanState # "Idle" =>
        /\ progress.total = Len(sites)
        /\ progress.completed = Cardinality(Collected)
        /\ progress.completed <= progress.total
        /\ scanState = "Completed" => progress.completed = progress.total

C18_Witness ==
    /\ Len(sites) = 2
    /\ scanState = "Completed"
    /\ progress = [completed |-> 2, total |-> 2]
    /\ Size(results) >= 2

RequestsIssued == Cardinality({i \in DOMAIN sites : Len(requests[i]) >= 1})

GenuineHit(i) ==
    /\ transport[i].kind = "response"
    /\ transport[i].status_code = 200
    /\ sites[i].detection_type \in {"status_code", "message_body"}
    /\ (sites[i].detection_type = "message_body" /\ sites[i].error_message # <<>>)
        => ~MarkerOccurs(sites[i].error_message, transport[i].text)

\* C20: a verdict is in the found bucket only if its probe received a final
\* HTTP 200 response (and, for message_body with a non-empty marker, a body
\* without the marker); a probe that ended in an exception, a non-200 status
\* or under an unrecognised detection_type is never in found.
C20_NoFalsePositive ==
    /\ \A i \in DOMAIN sites :
        (Returned(i) /\ ~GenuineHit(i)) =>
            /\ result[i][1].status # "found"
            /\ pc[i] = "collected" =>
                result[i][1] \in Range(results.not_found) \cup Range(results.errors)
    /\ \A k \in DOMAIN results.found :
        \E i \in DOMAIN sites :
            /\ GenuineHit(i)
            /\ results.found[k].site = sites[i].name
            /\ IsSubstituted(results.found[k].url, sites[i].url_template, username)

C20_Witness ==
    /\ Len(sites) = 1
    /\ sites[1].detection_type = "message_body"
    /\ sites[1].error_message # <<>>
    /\ transport[1].kind = "response"
    /\ transport[1].status_code = 200
    /\ transport[1].text # <<>>
    /\ results.found # <<>>
    /\ results.found[1].status = "found"

====
